---- MODULE Spec2Model ----
(***************************************************************************)
(* State-machine model of the stressful-object-storage load tester         *)
(* (src/src/session.rs, src/src/args.rs, src/src/main.rs).                  *)
(*                                                                         *)
(*  Spec       the session: the coordinator                                *)
(*             (ObjectStorageSession::try_loop_forever / loop_forever),    *)
(*             the worker tasks (SessionTask::try_loop_forever), the       *)
(*             shared atomics, the termination signal and process exit.    *)
(*  FairSpec   Spec with the fairness the tokio scheduler gives.           *)
(*  SpecWrite  one call of SessionTask::write, storage call by storage     *)
(*             call, with the multipart chunking loop step by step.        *)
(***************************************************************************)
EXTENDS Integers, Sequences, FiniteSets, TLC

(***************************************************************************)
(* Bounds of the model.                                                    *)
(***************************************************************************)
MaxThreads == 2
MaxStep == 2
MaxCount == 3
\* with count unset the cursor of a task is followed up to MaxIndex; a task
\* beyond it issues no further operation in the model
MaxIndex == MaxCount
\* the configured durations, in clock ticks
Durations == {0, 1}
MaxSizeUnits == 17
\* the chunk vector of a loop that never ends is followed up to MaxChunks
MaxChunks == MaxSizeUnits + 2
MaxThresholdUnits == 9
SizeUnit == 1000000

(***************************************************************************)
(* Program constants.                                                      *)
(***************************************************************************)
STATE_PENDING == 0
STATE_INIT == 1
STATE_READE == 2
\* LoadTesterArgs::minimal_multipart_threshold()
multipart_minimal == 5000000
\* LoadTesterArgs::default_size() and default_multipart_threshold()
default_size == 4000000
default_multipart_threshold == 8000000
\* usize arithmetic is modulo 2^64; TLC integers are 32 bits wide, so the
\* model wraps at 2^30, far above every length and threshold it draws.
UsizeModulus == 1073741824

\* Option<T>: None is the empty set, Some(v) is {v}.
None == {}
Some(v) == {v}

VARIABLES
    \* ---- configuration (Args), fixed after Init
    mode,                 \* LoadTesterJobArgs.mode: "Read" | "Write"
    no_progress_bar,      \* LoadTesterJobArgs.no_progress_bar
    threads_max,          \* LoadTesterJobArgs.threads_max
    duration,             \* LoadTesterJobArgs.duration: Option
    count,                \* LoadTesterArgs.count: Option
    step,                 \* LoadTesterArgs.step
    size,                 \* LoadTesterArgs.size
    multipart_threshold,  \* LoadTesterArgs.multipart_threshold
    \* ---- shared between the tasks
    state,                \* Arc<AtomicU8>
    counter,              \* Arc<AtomicU64>
    signal,               \* FunctionSignal: is_terminating()
    \* ---- the environment
    sigint,               \* the external cancellation (SIGINT) was raised
    objects,              \* the keys (indices) stored under /sample/
    \* ---- one SessionTask per id in 0..threads_max-1
    pc,                   \* position of the task in try_loop_forever
    index,                \* let mut index
    key,                  \* the index of the operation in flight
    elapsed,              \* instant.elapsed(), saturated at the duration
    result,               \* what the spawned task returned
    init_index,           \* the loop variable of init_read
    init_writes,          \* per key, the init_read writes that succeeded
    initializers,         \* the tasks whose compare_exchange succeeded
    op_failed,            \* a read or write of a task returned Err or panicked
    taken,                \* per task, the values `ret` of its cursor, in order
    \* ---- the coordinator
    cpc,                  \* position in ObjectStorageSession::try_loop_forever
    outcome,              \* what try_loop_forever returned
    cleanups,             \* how many times cleanup() was called
    files,                \* cleanup: let files = bucket.list(..)
    cleanup_failed,       \* the listing or a delete of cleanup() failed
    exited,               \* main_async reached signal.exit()
    \* ---- one call of SessionTask::write (SpecWrite)
    wpc,                  \* position in write
    build,                \* "debug" (overflow checks) | "release" (wrapping)
    add_counter,          \* the add_counter argument
    pos,                  \* let mut pos
    chunks,               \* let mut chunks: sequence of <<pos, pos_next>>
    parts,                \* let mut parts: part numbers uploaded
    calls,                \* the storage calls issued, in order
    answers,              \* what each of those calls returned, in order
    wresult               \* what write returned

cfgVars == <<mode, no_progress_bar, threads_max, duration, count, step, size,
             multipart_threshold>>
sharedVars == <<state, counter, signal>>
envVars == <<sigint, objects>>
taskVars == <<pc, index, key, elapsed, result, init_index, init_writes,
             initializers, op_failed, taken>>
coordVars == <<cpc, outcome, cleanups, files, cleanup_failed, exited>>
writeVars == <<wpc, build, add_counter, pos, chunks, parts, calls, answers,
              wresult>>
vars == <<cfgVars, sharedVars, envVars, taskVars, coordVars, writeVars>>

Tasks == 0 .. (threads_max - 1)

\* usize subtraction a - b: a debug build panics when b > a, a release
\* build wraps.
sub_overflows(a, b) == b > a
wrapping_sub(a, b) == IF b > a THEN UsizeModulus - (b - a) ELSE a - b

\* let pos_next = if remaining >= multipart_minimal { pos_next } else { len };
next_cut(pos_next, remaining, len) ==
    IF remaining >= multipart_minimal THEN pos_next ELSE len

(***************************************************************************)
(* The multipart chunking loop of SessionTask::write as a function of the  *)
(* payload length and the threshold: "ok" when the loop ends with          *)
(* pos = len, "panic" when len - pos_next underflows (debug: the           *)
(* subtraction panics; release: it wraps to a huge remaining, pos_next     *)
(* stays beyond len and the slice data[pos..pos_next] panics), "diverge"   *)
(* when pos does not advance (threshold 0).                                *)
(***************************************************************************)
RECURSIVE ChunkLoop(_, _, _)
ChunkLoop(p, len, threshold) ==
    IF ~(p < len) THEN "ok"
    ELSE LET pos_next == p + threshold
             cut == next_cut(pos_next, wrapping_sub(len, pos_next), len)
         IN  IF sub_overflows(len, pos_next) \/ cut > len THEN "panic"
             ELSE IF cut = p THEN "diverge"
             ELSE ChunkLoop(cut, len, threshold)

\* faulty variant of use_multipart: the boundary taken with >=
use_multipart_ge(len, threshold) == len >= threshold

\* let use_multipart = size > multipart_threshold;
use_multipart(len, threshold) == len > threshold

\* What a call of write can return when every storage call succeeds.
WriteRuns(len, threshold) ==
    IF use_multipart(len, threshold) THEN ChunkLoop(0, len, threshold) ELSE "ok"

\* faulty variant of first_index: every task starts at 0
first_index_zero(id) == 0

\* let mut index = *id;
first_index(id) == id

\* faulty variant of stride: the cursor advances by one
stride_one(total_tasks) == 1

\* index += *total_tasks;
stride(total_tasks) == total_tasks

\* faulty variant of key_of: the cursor used without reduction
key_of_unreduced(ret) == ret

\* ret % step
key_of(ret) == ret % step

\* faulty variant of fetch_add_if: the counter incremented by every call
fetch_add_always(c, add) == c + 1

\* if add_counter { self.counter.fetch_add(1, Ordering::SeqCst); }
fetch_add_if(c, add) == IF add THEN c + 1 ELSE c

\* faulty variant of prepopulates: the objects written in every mode
prepopulates_always(m) == TRUE

\* match self.metadata.mode { Read => self.init_read(&buf).await?,
\*                            Write => self.init_write().await? }
\* init_write is empty, init_read writes the step objects.
prepopulates(m) == m = "Read"

\* let mut buf = vec![0; size + step]
buf_len == size + step

\* the end of the range of: let data = &buf[index..index + size]
slice_end(i) == i + size

(***************************************************************************)
(* Init: the state when try_loop_forever has spawned the tasks.            *)
(***************************************************************************)
SizeConfigs ==
    { <<default_size, default_multipart_threshold>>,
      <<default_multipart_threshold + multipart_minimal + SizeUnit,
        default_multipart_threshold>> }

WriteIdle ==
    /\ wpc = "idle"
    /\ build = "debug"
    /\ add_counter = FALSE
    /\ pos = 0
    /\ chunks = << >>
    /\ parts = << >>
    /\ calls = << >>
    /\ answers = << >>
    /\ wresult = "none"

Init ==
    /\ mode \in {"Read", "Write"}
    /\ no_progress_bar \in BOOLEAN
    /\ threads_max \in 1 .. MaxThreads
    /\ duration \in {None} \cup {Some(d) : d \in Durations}
    /\ count \in {None} \cup {Some(c) : c \in 0 .. MaxCount}
    /\ step \in 1 .. MaxStep
    /\ \E sc \in SizeConfigs : size = sc[1] /\ multipart_threshold = sc[2]
    /\ state = STATE_PENDING
    /\ counter = 0
    /\ signal = FALSE
    /\ sigint = FALSE
    /\ objects = {}
    /\ pc = [w \in Tasks |-> "start"]
    /\ index = [w \in Tasks |-> first_index(w)]
    /\ taken = [w \in Tasks |-> << >>]
    /\ key = [w \in Tasks |-> 0]
    /\ elapsed = [w \in Tasks |-> 0]
    /\ result = [w \in Tasks |-> "none"]
    /\ init_index = [w \in Tasks |-> 0]
    /\ init_writes = [i \in 0 .. (step - 1) |-> 0]
    /\ initializers = {}
    /\ op_failed = FALSE
    /\ cpc = IF no_progress_bar THEN "join" ELSE "wait_ready"
    /\ outcome = "none"
    /\ cleanups = 0
    /\ files = {}
    /\ cleanup_failed = FALSE
    /\ exited = FALSE
    /\ WriteIdle

(***************************************************************************)
(* SessionTask::try_loop_forever, one action per await point.              *)
(***************************************************************************)
\* faulty variant of compare_exchange_is_ok: a plain store, no compare
compare_exchange_always(s) == TRUE

\* state.compare_exchange(STATE_PENDING, STATE_INIT, ..).is_ok()
compare_exchange_is_ok(s) == s = STATE_PENDING

\* faulty variant of barrier_is_open: the wait ends once the state has
\* left Pending
barrier_is_open_early(s) == s # STATE_PENDING

\* the exit condition of: while state.load(..) != STATE_READE { sleep }
barrier_is_open(s) == s = STATE_READE

\* faulty variant of count_reached: the check off by one
count_reached_late(i, c) == i > c

\* if index >= count { break }
count_reached(i, c) == i >= c

\* if instant.elapsed() >= duration { break }
duration_elapsed(e, d) == e >= d

\* What an awaited storage operation can return to the task. A read is one
\* get_object call. A write returns Ok only when its chunking loop ends;
\* a panic inside the spawned task reaches the coordinator as a JoinError.
ReadReturns == {"ok", "err"}
WriteReturns ==
    LET r == WriteRuns(size, multipart_threshold) IN
    IF r = "ok" THEN {"ok", "err"}
    ELSE IF r = "panic" THEN {"err", "panic"}
    ELSE {"err"}

\* The compare-and-swap on the shared state; the loser goes to the wait loop.
TaskStart(w) ==
    /\ ~exited
    /\ pc[w] = "start"
    /\ IF compare_exchange_is_ok(state)
       THEN /\ state' = STATE_INIT
            /\ pc' = [pc EXCEPT ![w] = "init"]
            /\ initializers' = initializers \cup {w}
       ELSE /\ pc' = [pc EXCEPT ![w] = "wait"]
            /\ UNCHANGED <<state, initializers>>
    /\ UNCHANGED <<cfgVars, counter, signal, envVars, index, key, elapsed,
                   result, init_index, init_writes, op_failed, taken,
                   coordVars, writeVars>>

\* init_read: for index in 0..step { self.write(index, buf, false) ... }
InitReadWrite(w) ==
    /\ ~exited
    /\ pc[w] = "init"
    /\ prepopulates(mode)
    /\ init_index[w] < step
    /\ pc' = [pc EXCEPT ![w] = "init_write"]
    /\ UNCHANGED <<cfgVars, sharedVars, envVars, index, key, elapsed, result,
                   init_index, init_writes, initializers, op_failed, taken,
                   coordVars, writeVars>>

\* init_read: self.write(index, buf, false).await?
InitReadWritten(w) ==
    /\ ~exited
    /\ pc[w] = "init_write"
    /\ \E r \in WriteReturns :
         IF r = "ok"
         THEN /\ objects' = objects \cup {init_index[w]}
              /\ init_writes' =
                    [init_writes EXCEPT ![init_index[w]] = @ + 1]
              /\ init_index' = [init_index EXCEPT ![w] = @ + 1]
              /\ counter' = fetch_add_if(counter, FALSE)
              /\ pc' = [pc EXCEPT ![w] = "init"]
              /\ UNCHANGED <<result, op_failed>>
         ELSE /\ pc' = [pc EXCEPT ![w] = "stopped"]
              /\ result' = [result EXCEPT ![w] = r]
              /\ op_failed' = TRUE
              /\ UNCHANGED <<counter, objects, init_index, init_writes>>
    /\ UNCHANGED <<cfgVars, state, signal, sigint, index, key, elapsed,
                   initializers, taken, coordVars, writeVars>>

\* init_read / init_write returned Ok: state.store(STATE_READE); the task
\* goes on to: let mut index = *id; let instant = Instant::now();
InitDone(w) ==
    /\ ~exited
    /\ pc[w] = "init"
    /\ ~prepopulates(mode) \/ ~(init_index[w] < step)
    /\ state' = STATE_READE
    /\ pc' = [pc EXCEPT ![w] = "loop"]
    /\ UNCHANGED <<cfgVars, counter, signal, envVars, index, key, elapsed,
                   result, init_index, init_writes, initializers, op_failed,
                   taken, coordVars, writeVars>>

\* while state.load(..) != STATE_READE { sleep(10ms).await }
BarrierWait(w) ==
    /\ ~exited
    /\ pc[w] = "wait"
    /\ IF barrier_is_open(state)
       THEN pc' = [pc EXCEPT ![w] = "loop"]
       ELSE UNCHANGED pc
    /\ UNCHANGED <<cfgVars, sharedVars, envVars, index, key, elapsed, result,
                   init_index, init_writes, initializers, op_failed, taken,
                   coordVars, writeVars>>

\* The three termination checks at the head of the loop.
loop_breaks(w) ==
    \/ signal
    \/ \E c \in count : count_reached(index[w], c)
    \/ \E d \in duration : duration_elapsed(elapsed[w], d)

\* faulty variant of break_result: a break reported as an error
break_result_err == "err"

\* what the task returns after a break: Ok(())
break_result == "ok"

\* One pass over the head of the loop: break, or take the next index and
\* issue the read or write:
\*     let index = { let ret = index; index += *total_tasks; ret % step };
LoopIter(w) ==
    /\ ~exited
    /\ pc[w] = "loop"
    /\ IF loop_breaks(w)
       THEN /\ pc' = [pc EXCEPT ![w] = "stopped"]
            /\ result' = [result EXCEPT ![w] = break_result]
            /\ UNCHANGED <<index, key, taken>>
       ELSE /\ index[w] <= MaxIndex
            /\ LET ret == index[w] IN
               /\ index' = [index EXCEPT ![w] = @ + stride(threads_max)]
               /\ key' = [key EXCEPT ![w] = key_of(ret)]
               /\ taken' = [taken EXCEPT ![w] = Append(@, ret)]
            /\ pc' = [pc EXCEPT ![w] = "op"]
            /\ UNCHANGED result
    /\ UNCHANGED <<cfgVars, sharedVars, envVars, elapsed, init_index,
                   init_writes, initializers, op_failed, coordVars,
                   writeVars>>

\* self.read(index, true).await? / self.write(index, &buf, true).await?
OpDone(w) ==
    /\ ~exited
    /\ pc[w] = "op"
    /\ \E r \in (IF mode = "Read" THEN ReadReturns ELSE WriteReturns) :
         IF r = "ok"
         THEN /\ counter' = fetch_add_if(counter, TRUE)
              /\ objects' = IF mode = "Write" THEN objects \cup {key[w]}
                                              ELSE objects
              /\ pc' = [pc EXCEPT ![w] = "loop"]
              /\ UNCHANGED <<result, op_failed>>
         ELSE /\ pc' = [pc EXCEPT ![w] = "stopped"]
              /\ result' = [result EXCEPT ![w] = r]
              /\ op_failed' = TRUE
              /\ UNCHANGED <<counter, objects>>
    /\ UNCHANGED <<cfgVars, state, signal, sigint, index, key, elapsed,
                   init_index, init_writes, initializers, taken, coordVars,
                   writeVars>>

\* The clock: instant.elapsed() grows for every task that has taken its
\* instant; the model stops counting at the configured duration.
Tick ==
    /\ ~exited
    /\ \E d \in duration :
         /\ \E w \in Tasks : pc[w] \in {"loop", "op"} /\ elapsed[w] < d
         /\ elapsed' = [w \in Tasks |->
                          IF pc[w] \in {"loop", "op"} /\ elapsed[w] < d
                          THEN elapsed[w] + 1 ELSE elapsed[w]]
    /\ UNCHANGED <<cfgVars, sharedVars, envVars, pc, index, key, result,
                   init_index, init_writes, initializers, op_failed, taken,
                   coordVars, writeVars>>

\* SIGINT: signal.trap_on_sigint() makes the signal terminating.
Sigint ==
    /\ ~exited
    /\ ~sigint
    /\ sigint' = TRUE
    /\ signal' = TRUE
    /\ UNCHANGED <<cfgVars, state, counter, objects, taskVars, coordVars,
                   writeVars>>

(***************************************************************************)
(* ObjectStorageSession::try_loop_forever and loop_forever.                *)
(***************************************************************************)
Failed(w) == result[w] \in {"err", "panic"}

\* task_handler: FuturesUnordered<..>.try_collect(). It resolves to Err as
\* soon as one finished task holds an error, to Ok when every task has
\* returned Ok, and is pending otherwise.
try_collect ==
    IF \E w \in Tasks : Failed(w) THEN "err"
    ELSE IF \A w \in Tasks : result[w] = "ok" THEN "ok"
    ELSE "pending"

\* let is_finished = count.map(|count| count.as_u64() == progressed)
\*                         .unwrap_or_default();
is_finished(progressed) == \E c \in count : c = progressed

\* loop_forever: Ok(()) => signal.terminate(),
\*               Err(error) => signal.terminate_on_panic()
\* Both make the signal terminating; outcome keeps which one was called.
Return(r) ==
    /\ outcome' = r
    /\ cpc' = "done"
    /\ signal' = TRUE

\* if no_progress_bar { task_handler.await }
JoinNoProgress ==
    /\ ~exited
    /\ cpc = "join"
    /\ try_collect # "pending"
    /\ Return(try_collect)
    /\ UNCHANGED <<cfgVars, state, counter, envVars, taskVars, cleanups,
                   files, cleanup_failed, exited, writeVars>>

\* while state.load(..) != STATE_READE { sleep(10ms).await }
WaitReady ==
    /\ ~exited
    /\ cpc = "wait_ready"
    /\ IF state = STATE_READE THEN cpc' = "poll" ELSE UNCHANGED cpc
    /\ UNCHANGED <<cfgVars, sharedVars, envVars, taskVars, outcome, cleanups,
                   files, cleanup_failed, exited, writeVars>>

\* One pass of the progress loop: load the counter, then either go on to
\* join the tasks or sleep 50ms.
Progress ==
    /\ ~exited
    /\ cpc = "poll"
    /\ IF is_finished(counter) \/ signal
       THEN cpc' = "join_progress"
       ELSE UNCHANGED cpc
    /\ UNCHANGED <<cfgVars, sharedVars, envVars, taskVars, outcome, cleanups,
                   files, cleanup_failed, exited, writeVars>>

\* task_handler.await?;  then  break cleanup(bucket).await
JoinProgress ==
    /\ ~exited
    /\ cpc = "join_progress"
    /\ try_collect # "pending"
    /\ IF try_collect = "err"
       THEN /\ Return("err")
            /\ UNCHANGED cleanups
       ELSE /\ cpc' = "cleanup_list"
            /\ cleanups' = cleanups + 1
            /\ UNCHANGED <<outcome, signal>>
    /\ UNCHANGED <<cfgVars, state, counter, envVars, taskVars, files,
                   cleanup_failed, exited, writeVars>>

\* faulty variant of cleanup_error: a failed cleanup reported as success
cleanup_error_dropped == "ok"

\* cleanup: .map_err(|error| anyhow!("failed to ...: {error}")), returned by
\* `break cleanup(bucket).await`
cleanup_error == "err"

\* cleanup: let files = bucket.list(prefix, Some(delimeter)).await.map_err(..)?
CleanupList ==
    /\ ~exited
    /\ cpc = "cleanup_list"
    /\ \/ /\ files' = objects
          /\ cpc' = "cleanup_delete"
          /\ UNCHANGED <<outcome, signal, cleanup_failed>>
       \/ /\ Return(cleanup_error)
          /\ cleanup_failed' = TRUE
          /\ UNCHANGED files
    /\ UNCHANGED <<cfgVars, state, counter, envVars, taskVars, cleanups,
                   exited, writeVars>>

\* cleanup: one delete_object per listed file, collected with try_collect:
\* either every delete succeeds, or one fails and the rest are dropped with
\* only some of the files deleted.
CleanupDelete ==
    /\ ~exited
    /\ cpc = "cleanup_delete"
    /\ \/ /\ objects' = objects \ files
          /\ Return("ok")
          /\ UNCHANGED cleanup_failed
       \/ /\ files # {}
          /\ \E deleted \in (SUBSET files) \ {files} :
               objects' = objects \ deleted
          /\ Return(cleanup_error)
          /\ cleanup_failed' = TRUE
    /\ UNCHANGED <<cfgVars, state, counter, sigint, taskVars, cleanups, files,
                   exited, writeVars>>

\* main_async: signal.wait_to_terminate().await; handler_session.await;
\* signal.exit().await  -- the process ends, with it every task still running
MainExit ==
    /\ ~exited
    /\ cpc = "done"
    /\ signal
    /\ exited' = TRUE
    /\ UNCHANGED <<cfgVars, sharedVars, envVars, taskVars, cpc, outcome,
                   cleanups, files, cleanup_failed, writeVars>>

Next ==
    \/ \E w \in Tasks : TaskStart(w)
    \/ \E w \in Tasks : InitReadWrite(w)
    \/ \E w \in Tasks : InitReadWritten(w)
    \/ \E w \in Tasks : InitDone(w)
    \/ \E w \in Tasks : BarrierWait(w)
    \/ \E w \in Tasks : LoopIter(w)
    \/ \E w \in Tasks : OpDone(w)
    \/ JoinNoProgress
    \/ WaitReady
    \/ Progress
    \/ JoinProgress
    \/ CleanupList
    \/ CleanupDelete
    \/ MainExit
    \/ Tick
    \/ Sigint

Spec == Init /\ [][Next]_vars

\* The fairness of the tokio runtime and of the clock: every spawned task
\* and the coordinator keep being polled, time keeps passing. Nothing
\* promises that SIGINT is ever raised.
TaskStep(w) ==
    /\ w \in Tasks
    /\ \/ TaskStart(w)
       \/ InitReadWrite(w)
       \/ InitReadWritten(w)
       \/ InitDone(w)
       \/ BarrierWait(w)
       \/ LoopIter(w)
       \/ OpDone(w)

CoordinatorStep ==
    \/ JoinNoProgress
    \/ WaitReady
    \/ Progress
    \/ JoinProgress
    \/ CleanupList
    \/ CleanupDelete

FairSpec ==
    /\ Init
    /\ [][Next]_vars
    /\ \A w \in 0 .. (MaxThreads - 1) : WF_vars(TaskStep(w))
    /\ WF_vars(CoordinatorStep)
    /\ WF_vars(MainExit)
    /\ WF_vars(Tick)

(***************************************************************************)
(* SessionTask::write(index, buf, add_counter), one action per storage     *)
(* call and per pass of the chunking loop. The payload is                  *)
(* data = &buf[index..index + size], so data.len() = size.                 *)
(***************************************************************************)
SessionIdle ==
    /\ mode = "Write"
    /\ no_progress_bar = TRUE
    /\ threads_max = 1
    /\ duration = None
    /\ count = None
    /\ state = STATE_READE
    /\ counter = 0
    /\ signal = FALSE
    /\ sigint = FALSE
    /\ objects = {}
    /\ pc = [w \in Tasks |-> "op"]
    /\ index = [w \in Tasks |-> first_index(w)]
    /\ taken = [w \in Tasks |-> << >>]
    /\ elapsed = [w \in Tasks |-> 0]
    /\ result = [w \in Tasks |-> "none"]
    /\ init_index = [w \in Tasks |-> 0]
    /\ init_writes = [i \in 0 .. (step - 1) |-> 0]
    /\ initializers = {}
    /\ op_failed = FALSE
    /\ cpc = "join"
    /\ outcome = "none"
    /\ cleanups = 0
    /\ files = {}
    /\ cleanup_failed = FALSE
    /\ exited = FALSE

InitWrite ==
    /\ size \in {k * SizeUnit : k \in 0 .. MaxSizeUnits}
    /\ multipart_threshold \in {k * SizeUnit : k \in 0 .. MaxThresholdUnits}
    /\ step \in 1 .. MaxStep
    /\ SessionIdle
    /\ key \in [Tasks -> 0 .. (step - 1)]
    /\ build \in {"debug", "release"}
    /\ add_counter \in BOOLEAN
    /\ wpc = "begin"
    /\ pos = 0
    /\ chunks = << >>
    /\ parts = << >>
    /\ calls = << >>
    /\ answers = << >>
    /\ wresult = "none"

sessionVars == <<cfgVars, state, signal, envVars, taskVars, coordVars>>

\* a storage call returns Ok or Err
Answers == {"ok", "err"}

\* if add_counter { self.counter.fetch_add(1, ..) }  Ok(())
WriteOk ==
    /\ counter' = fetch_add_if(counter, add_counter)
    /\ wresult' = "ok"
    /\ wpc' = "done"

\* the ? operator on a failed call, or a panic
WriteFails(r) ==
    /\ wresult' = r
    /\ wpc' = "done"
    /\ UNCHANGED counter

\* let use_multipart = size > multipart_threshold; ... if use_multipart
WriteBegin ==
    /\ wpc = "begin"
    /\ wpc' = IF use_multipart(size, multipart_threshold)
              THEN "initiate" ELSE "put"
    /\ UNCHANGED <<sessionVars, counter, build, add_counter, pos, chunks,
                   parts, calls, answers, wresult>>

\* self.bucket.put_object_stream(&mut reader, &path).await?
WritePut ==
    /\ wpc = "put"
    /\ calls' = Append(calls, <<"put_object_stream", key[0], size>>)
    /\ \E a \in Answers :
         /\ answers' = Append(answers, a)
         /\ IF a = "ok" THEN WriteOk ELSE WriteFails("err")
    /\ UNCHANGED <<sessionVars, build, add_counter, pos, chunks, parts>>

\* self.bucket.initiate_multipart_upload(&path, CONTENT_TYPE).await?
\* let mut chunks = vec![]; let mut pos = 0;
WriteInitiate ==
    /\ wpc = "initiate"
    /\ calls' = Append(calls, <<"initiate_multipart_upload", key[0], 0>>)
    /\ \E a \in Answers :
         /\ answers' = Append(answers, a)
         /\ IF a = "ok"
            THEN /\ wpc' = "chunk"
                 /\ pos' = 0
                 /\ chunks' = << >>
                 /\ UNCHANGED <<counter, wresult>>
            ELSE /\ WriteFails("err")
                 /\ UNCHANGED <<pos, chunks>>
    /\ UNCHANGED <<sessionVars, build, add_counter, parts>>

\* One pass of: while pos < len { ... }
WriteChunk ==
    /\ wpc = "chunk"
    /\ LET len == size
           pos_next == pos + multipart_threshold
           remaining == wrapping_sub(len, pos_next)
           cut == next_cut(pos_next, remaining, len)
       IN  IF ~(pos < len)
           THEN /\ wpc' = "upload"
                /\ UNCHANGED <<pos, chunks, wresult, counter>>
           ELSE IF \/ build = "debug" /\ sub_overflows(len, pos_next)
                   \/ cut > len
                   \/ pos > cut
                THEN \* attempt to subtract with overflow, or
                     \* &data[pos..pos_next] out of range
                     /\ WriteFails("panic")
                     /\ UNCHANGED <<pos, chunks>>
                ELSE /\ Len(chunks) < MaxChunks
                     /\ chunks' = Append(chunks, <<pos, cut>>)
                     /\ pos' = cut
                     /\ UNCHANGED <<wpc, wresult, counter>>
    /\ UNCHANGED <<sessionVars, build, add_counter, parts, calls, answers>>

\* faulty variant of part_number_of: parts numbered from 0
part_number_from_zero(i) == i

\* let part_number = (part_number + 1).try_into()?  for the i-th item
\* (i = 0, 1, ...) of chunks.iter_mut().enumerate()
part_number_of(i) == i + 1

\* for (part_number, reader) in chunks.iter_mut().enumerate() {
\*     let part_number = (part_number + 1).try_into()?;
\*     let part = self.bucket.put_multipart_stream(..).await?;
\*     parts.push(part); }
WriteUpload ==
    /\ wpc = "upload"
    /\ Len(parts) < Len(chunks)
    /\ LET part_number == part_number_of(Len(parts))
           reader == chunks[Len(parts) + 1]
       IN
       /\ calls' = Append(calls, <<"put_multipart_stream", key[0],
                                   part_number, reader>>)
       /\ \E a \in Answers :
            /\ answers' = Append(answers, a)
            /\ IF a = "ok"
               THEN /\ parts' = Append(parts, part_number)
                    /\ UNCHANGED <<wpc, wresult, counter>>
               ELSE /\ WriteFails("err")
                    /\ UNCHANGED parts
    /\ UNCHANGED <<sessionVars, build, add_counter, pos, chunks>>

\* self.bucket.complete_multipart_upload(&path, &upload_id, parts).await?
WriteComplete ==
    /\ wpc = "upload"
    /\ ~(Len(parts) < Len(chunks))
    /\ calls' = Append(calls, <<"complete_multipart_upload", key[0], parts>>)
    /\ \E a \in Answers :
         /\ answers' = Append(answers, a)
         /\ IF a = "ok" THEN WriteOk ELSE WriteFails("err")
    /\ UNCHANGED <<sessionVars, build, add_counter, pos, chunks, parts>>

NextWrite ==
    \/ WriteBegin
    \/ WritePut
    \/ WriteInitiate
    \/ WriteChunk
    \/ WriteUpload
    \/ WriteComplete

SpecWrite == InitWrite /\ [][NextWrite]_vars

(***************************************************************************)
(* The claims.                                                             *)
(***************************************************************************)
Running(w) == pc[w] \in {"loop", "op"}
AllStopped == \A w \in Tasks : pc[w] = "stopped"

\* C1: in Read mode at most one task performs the initialization (the one
\* whose compare-and-swap succeeded); every other task that has started and
\* not stopped stays in the barrier wait while the state is not Ready, and
\* no task is in its Running loop while the state is not Ready.
C1_SingleInitializer ==
    mode = "Read" =>
        /\ Cardinality(initializers) <= 1
        /\ \A w \in Tasks :
             /\ pc[w] \in {"init", "init_write"} => w \in initializers
             /\ (Running(w) \/ result[w] = "ok") => state = STATE_READE
             /\ ( /\ w \notin initializers
                  /\ pc[w] \notin {"start", "stopped"}
                  /\ state # STATE_READE ) => pc[w] = "wait"

\* C1 witness: the initializer is at its second write while another task
\* sits in the barrier wait.
C1_Witness ==
    /\ mode = "Read"
    /\ state = STATE_INIT
    /\ \E v \in Tasks, w \in Tasks :
         /\ v # w
         /\ pc[v] = "init_write"
         /\ init_index[v] >= 1
         /\ pc[w] = "wait"

\* C2: in Read mode the initialization writes each index 0..step-1 exactly
\* once, all of them before any task is in its Running loop, so every read
\* in flight addresses a key that has been written.
C2_InitWritesBeforeReads ==
    mode = "Read" =>
        /\ \A i \in 0 .. (step - 1) : init_writes[i] <= 1
        /\ (counter > 0 \/ \E w \in Tasks : Running(w)) =>
               \A i \in 0 .. (step - 1) : init_writes[i] = 1
        /\ \A w \in Tasks : pc[w] = "op" => key[w] \in objects

\* C2 witness: a task that did not initialize reads a key other than 0.
C2_Witness ==
    /\ mode = "Read"
    /\ step >= 2
    /\ \E w \in Tasks :
         /\ w \notin initializers
         /\ pc[w] = "op"
         /\ key[w] > 0

\* C3: with count = N, no duration, no cancellation and no failed
\* operation, the counter never exceeds N, equals N once every task has
\* stopped, and every operation targets a key index in [0, step).
C3_CountOperations ==
    \A n \in count :
        (duration = None /\ ~sigint /\ ~op_failed) =>
            /\ counter <= n
            /\ AllStopped => counter = n
            /\ \A w \in Tasks : pc[w] = "op" => key[w] \in 0 .. (step - 1)

\* C3 witness: more tasks than operations, all stopped, N operations counted.
C3_Witness ==
    /\ \E n \in count : n >= 1 /\ threads_max > n /\ counter = n
    /\ duration = None
    /\ ~sigint
    /\ ~op_failed
    /\ AllStopped

\* C4: for every run that ends by count, duration or cancellation (no
\* operation failed), cleanup is executed exactly once, and only after
\* every task has stopped.
C4_CleanupExactlyOnce ==
    /\ cleanups <= 1
    /\ cleanups >= 1 => AllStopped
    /\ (cpc = "done" /\ ~op_failed) => cleanups = 1

\* C5: once the signal is raised no task starts a new operation: a Running
\* task issues no further read or write, and the initializing task issues
\* none of the remaining initialization writes.
C5_SignalStopsEveryTask ==
    [][signal => \A w \in Tasks :
           /\ pc[w] = "loop" => pc'[w] # "op"
           /\ pc[w] = "init" => pc'[w] # "init_write"]_vars

\* C6: the coordinator has not returned an error while some task is still
\* running or waiting.
C6_ErrorAfterFullJoin ==
    outcome = "err" => AllStopped

\* C7: if a task fails with an operation error, the session eventually
\* terminates with the error outcome.
C7_FailureEndsSession ==
    (\E w \in Tasks : Failed(w)) ~> (outcome = "err")

\* C8: a run cancelled by the external signal in which no operation and no
\* cleanup call failed returns Ok (signal.terminate(), not the
\* terminate_on_panic path).
C8_CancellationIsSuccess ==
    (cpc = "done" /\ sigint /\ ~op_failed /\ ~cleanup_failed) =>
        outcome = "ok"

\* C8 witness: neither count nor duration is set, so only the signal ended
\* the tasks; operations were counted, cleanup ran, the run returned Ok.
C8_Witness ==
    /\ sigint
    /\ count = None
    /\ duration = None
    /\ ~no_progress_bar
    /\ counter >= 1
    /\ cleanups = 1
    /\ cpc = "done"
    /\ outcome = "ok"

IsMultipartCall(c) ==
    c[1] \in {"initiate_multipart_upload", "put_multipart_stream",
              "complete_multipart_upload"}

\* C9: a write issues multipart calls if and only if the payload is
\* strictly longer than multipart_threshold; at or below the threshold it
\* is one put_object_stream and nothing else.
C9_MultipartIffAboveThreshold ==
    /\ \A i \in 1 .. Len(calls) :
         IsMultipartCall(calls[i]) <=> size > multipart_threshold
    /\ size <= multipart_threshold =>
         /\ Len(calls) <= 1
         /\ wpc = "done" => calls = << <<"put_object_stream", key[0], size>> >>

\* C9 witness: a payload exactly at the threshold was written with one put.
C9_Witness ==
    /\ size = multipart_threshold
    /\ size > 0
    /\ wpc = "done"
    /\ wresult = "ok"
    /\ Len(calls) = 1
    /\ calls[1][1] = "put_object_stream"

\* the chunking loop has been left (the initiate call had succeeded)
ChunkLoopLeft ==
    \/ wpc = "upload"
    \/ wpc = "done" /\ (wresult = "panic" \/ Len(calls) >= 2)

\* C10: for a payload longer than the threshold the chunks are non-empty
\* contiguous ranges starting at 0, and when the chunking loop is left they
\* end at the payload length.
C10_ChunksPartitionPayload ==
    size > multipart_threshold =>
        /\ \A i \in 1 .. Len(chunks) :
             /\ chunks[i][1] < chunks[i][2]
             /\ chunks[i][1] = (IF i = 1 THEN 0 ELSE chunks[i - 1][2])
        /\ ChunkLoopLeft =>
             /\ Len(chunks) >= 1
             /\ chunks[Len(chunks)][2] = size

\* The step-by-step chunking loop of SpecWrite and ChunkLoop, which Spec
\* uses for the outcome of a whole write, agree.
ChunkLoopAgrees ==
    /\ wpc = "upload" => ChunkLoop(0, size, multipart_threshold) = "ok"
    /\ wresult = "panic" => ChunkLoop(0, size, multipart_threshold) = "panic"
    /\ (wpc = "chunk" /\ Len(chunks) = MaxChunks) =>
           ChunkLoop(0, size, multipart_threshold) = "diverge"

\* the size of the i-th chunk pushed by the chunking loop
ChunkSize(i) == chunks[i][2] - chunks[i][1]

\* C11: for a payload longer than the threshold, once the chunking loop
\* has finished and the parts are being uploaded, every part except
\* possibly the first is at least multipart_minimal bytes long.
C11_PartsAtLeastMinimum ==
    (size > multipart_threshold /\ wpc = "upload") =>
        \A i \in 2 .. Len(chunks) : ChunkSize(i) >= multipart_minimal

\* the i-th storage call of a multipart write of the chunks cut so far:
\* initiate, then one upload per chunk numbered from 1, then complete with
\* the part identifiers in chunk order
ExpectedCall(i) ==
    IF i = 1 THEN <<"initiate_multipart_upload", key[0], 0>>
    ELSE IF i <= Len(chunks) + 1
         THEN <<"put_multipart_stream", key[0], i - 1, chunks[i - 1]>>
         ELSE <<"complete_multipart_upload", key[0],
                [k \in 1 .. Len(chunks) |-> k]>>

\* C12: a multipart write issues initiate, then the part uploads 1..n one
\* at a time in chunk order, then one complete with the n part identifiers
\* in that order and nothing else (no abort); only the last call issued can
\* have failed, and then the write has returned the error.
C12_MultipartCallOrder ==
    size > multipart_threshold =>
        /\ Len(answers) = Len(calls)
        /\ Len(calls) <= Len(chunks) + 2
        /\ \A i \in 1 .. Len(calls) :
             /\ calls[i] = ExpectedCall(i)
             /\ i < Len(calls) => answers[i] = "ok"
             /\ answers[i] = "err" => (wpc = "done" /\ wresult = "err")
        /\ wresult = "ok" =>
             /\ Len(calls) = Len(chunks) + 2
             /\ Len(parts) = Len(chunks)

\* C12 witness: the upload of the second of at least three parts failed;
\* the write returned the error after initiate, part 1 and part 2.
C12_Witness ==
    /\ size > multipart_threshold
    /\ Len(chunks) >= 3
    /\ wpc = "done"
    /\ wresult = "err"
    /\ Len(calls) = 3
    /\ answers = <<"ok", "ok", "err">>

\* The Running-loop operations of task w that returned Ok: those it took
\* an index for, less the one in flight or the one that failed.
OpsCompleted(w) ==
    Len(taken[w]) - (IF Len(taken[w]) > 0 /\ (pc[w] = "op" \/ Failed(w))
                     THEN 1 ELSE 0)

RECURSIVE SumOpsCompleted(_)
SumOpsCompleted(n) ==
    IF n = 0 THEN 0 ELSE OpsCompleted(n - 1) + SumOpsCompleted(n - 1)

\* C13: the shared counter always equals the number of Running-loop reads
\* and writes that have returned Ok over all tasks (initialization writes
\* and failed operations are not counted), and no step decreases it or
\* raises it by more than one.
C13_CounterCountsCompletedOps ==
    /\ [](counter = SumOpsCompleted(threads_max))
    /\ [][counter' \in {counter, counter + 1}]_vars

\* C13 witness: in Read mode both keys were pre-populated, two reads were
\* counted and one operation of a task failed.
C13_Witness ==
    /\ mode = "Read"
    /\ step = 2
    /\ \A i \in 0 .. (step - 1) : init_writes[i] = 1
    /\ counter = 2
    /\ \E w \in Tasks : Failed(w) /\ Len(taken[w]) >= 1

\* the barrier can still be opened: it is open, or the task that won the
\* compare-and-swap is still initializing, or nobody has won it yet
BarrierCanOpen ==
    \/ state = STATE_READE
    \/ state = STATE_PENDING
    \/ \E u \in Tasks : pc[u] \in {"init", "init_write"}

\* C14: a task whose operation failed has stopped with that error, and the
\* failure is fatal to that task only: every other task that has not
\* stopped can still go through its own loop, i.e. it is neither ended by
\* the exit of the process nor waiting on a barrier that will never open.
C14_FailureIsLocal ==
    \A w \in Tasks :
        Failed(w) =>
            /\ pc[w] = "stopped"
            /\ \A v \in Tasks \ {w} :
                 pc[v] # "stopped" =>
                     /\ ~exited
                     /\ pc[v] = "wait" => BarrierCanOpen

\* C15: when the run has returned Ok and no storage call failed (no read,
\* write, listing or delete), no object is left under the sample prefix.
C15_NoObjectLeft ==
    (cpc = "done" /\ outcome = "ok" /\ ~op_failed /\ ~cleanup_failed) =>
        objects = {}

\* C16: when the cleanup listing or a cleanup delete has failed (every task
\* had returned Ok, or cleanup would not have run), the coordinator has
\* returned, and what it returned is an error.
C16_CleanupFailureIsOutcome ==
    cleanup_failed =>
        /\ \A w \in Tasks : result[w] = "ok"
        /\ cpc = "done"
        /\ outcome = "err"

\* C16 witness: the listing succeeded, then a delete failed with objects
\* left behind, and the run returned the error.
C16_Witness ==
    /\ cleanup_failed
    /\ files # {}
    /\ objects # {}
    /\ \A w \in Tasks : result[w] = "ok"
    /\ op_failed = FALSE
    /\ outcome = "err"

\* the key indices the tasks have passed to read or write in their loops
UsedKeys ==
    UNION {{key_of(taken[w][k]) : k \in 1 .. Len(taken[w])} : w \in Tasks}

\* C17: with neither count nor duration set, every key index in
\* 0..step-1 is eventually used by some task, unless an operation fails or
\* the run is cancelled.
C17_EveryResidueUsed ==
    (count = None /\ duration = None) ~>
        (UsedKeys = 0 .. (step - 1) \/ op_failed \/ sigint)

\* C17 witness: one task, two keys, no limit, no failure, no cancellation:
\* the single cursor has used both key indices.
C17_Witness ==
    /\ count = None
    /\ duration = None
    /\ threads_max < step
    /\ ~op_failed
    /\ ~sigint
    /\ UsedKeys = 0 .. (step - 1)

\* C18: task w has taken exactly the logical indices w, w+T, w+2T, ... in
\* that order and its cursor stands at the next one, so no logical index
\* has been taken by two tasks or twice by one task.
C18_IndicesDisjoint ==
    /\ \A w \in Tasks :
         /\ \A k \in 1 .. Len(taken[w]) :
              taken[w][k] = w + (k - 1) * threads_max
         /\ index[w] = w + Len(taken[w]) * threads_max
    /\ \A v \in Tasks, w \in Tasks :
         \A j \in 1 .. Len(taken[v]), k \in 1 .. Len(taken[w]) :
             taken[v][j] = taken[w][k] => (v = w /\ j = k)

\* C18 witness: two tasks have each taken two indices.
C18_Witness ==
    /\ threads_max = 2
    /\ taken[0] = <<0, 2>>
    /\ taken[1] = <<1, 3>>

\* C19: the key index of every read or write in flight, in the loop and in
\* the initialization, lies in 0..step-1, and the range
\* buf[index .. index + size] of every write in flight ends within the
\* buffer of size + step bytes.
C19_KeyAndSliceInRange ==
    \A w \in Tasks :
        /\ pc[w] = "op" =>
             /\ key[w] \in 0 .. (step - 1)
             /\ mode = "Write" => slice_end(key[w]) <= buf_len
        /\ pc[w] = "init_write" =>
             /\ init_index[w] \in 0 .. (step - 1)
             /\ slice_end(init_index[w]) <= buf_len

\* C19 witness: a task whose cursor has passed step writes the last key.
C19_Witness ==
    /\ mode = "Write"
    /\ step >= 2
    /\ \E w \in Tasks :
         /\ pc[w] = "op"
         /\ key[w] = step - 1
         /\ index[w] > step + threads_max

C21_ChunkLoopInBounds ==
    size > multipart_threshold =>
        /\ (wpc = "chunk" /\ pos < size) =>
               ~sub_overflows(size, pos + multipart_threshold)
        /\ wresult # "panic"
        /\ \A i \in 1 .. Len(chunks) :
             /\ chunks[i][2] <= size
             /\ chunks[i][2] > chunks[i][1]
        /\ wpc = "upload" => pos = size

\* C22: once the run is cancelled, every task eventually stops (or the
\* process has ended); in particular the tasks in the barrier wait do not
\* stay there for ever.
C22_EveryTaskStops ==
    sigint ~> (AllStopped \/ exited)

\* C23: once every task has returned Ok, the coordinator eventually
\* returns, whatever the progress display, count, duration and number of
\* tasks, and whether or not a cancellation arrives.
C23_CoordinatorReturns ==
    (\A w \in Tasks : result[w] = "ok") ~> (cpc = "done")

====
